---- MODULE Spec2Model ----
(***************************************************************************)
(* Worker runtime, queue substrate adapter, job record store adapter and   *)
(* queue-driven autoscaler of the text-processing job platform.            *)
(*                                                                         *)
(* Spec      : workers (dispatch loop, in-flight semaphore, per-job        *)
(*             drivers), the three Redis lists and the job rows.           *)
(* SpecRule  : the replica rule (calculateOptimalReplicas) applied tick    *)
(*             after tick to arbitrary depth samples.                      *)
(* SpecSolo  : Spec with one worker process consuming.                     *)
(* SpecSoloLifecycle : SpecSolo with the shutdown paths of Start and Stop. *)
(* SpecSoloStop : SpecSoloLifecycle under a fair scheduler.                *)
(* SpecSoloForeign : SpecSolo with list entries that do not decode.        *)
(* SpecSoloClock : SpecSolo with the wall clock advancing.                 *)
(* SpecScenario : one worker facing a main and a priority message.         *)
(* SpecHeartbeat : the heartbeat record of the queue adapter and its TTL.  *)
(* SpecScaler: scaleWorkerDeployment as a whole, tick after tick.          *)
(* SpecRamp  : the replica rule fed with a ramp of depth samples.          *)
(* SpecPatch : the tick step by step, next to a second API client.         *)
(***************************************************************************)
EXTENDS Integers, Sequences, FiniteSets, Bags, TLC

\* ------------------------------------------------------------------ bounds
NumWorkers == 2
NumJobs == 2
MaxPublish == 2
MaxDepth == 105
MaxSteady == 10
MaxClock == 40

\* concurrent-jobs (config.ConcurrentJobs), the capacity of jobSema
ConcurrentJobs == 1

Workers == 1..NumWorkers
JobIds == 1..NumJobs

\* ------------------------------------------------- queue substrate (redis.go)
QueueMain == "text_tasks"
QueuePriority == "text_tasks:priority"
QueueFailed == "text_tasks:failed"
highPriorityThreshold == 5

QueueNames == {QueueMain, QueuePriority, QueueFailed}

\* priorities a publisher may put in a message: one on each side of the threshold
Priorities == {1, 9}

\* SubmitJobMessage, reduced to the fields that drive control flow
SubmitJobMessage == [job_id : JobIds, priority : Priorities]

NoMessage == [job_id |-> 0, priority |-> 0]

\* a list entry that is not the JSON of a SubmitJobMessage
Malformed == [job_id |-> 0, priority |-> -1]

\* variant of UnmarshalOk: the decoder rejects every entry
UnmarshalRejectsAll(jobData) == FALSE

\* json.Unmarshal([]byte(jobData), &message) returns nil: the entry is the
\* JSON PublishJob wrote (the fields kept here survive the round trip unchanged)
UnmarshalOk(jobData) == jobData \in SubmitJobMessage

\* the envelope PublishToFailedQueue builds around the message
FailedEnvelope(message, errorMsg) ==
    [job_id |-> message.job_id, priority |-> message.priority,
     error_message |-> errorMsg, retry_count |-> 1]

\* variant of LPush: the new element is appended at the end RPOP takes from
LPushAtTail(list, data) == list \o <<data>>

\* LPUSH: the new element becomes the head (index 1) of the list
LPush(list, data) == <<data>> \o list

\* the element RPOP/BRPOP returns: the tail of the list
RPopValue(list) == list[Len(list)]

\* variant of RPopRest: the element is read and left in the list
RPopRestPeek(list) == list

\* the list RPOP/BRPOP leaves behind
RPopRest(list) == SubSeq(list, 1, Len(list) - 1)

\* PublishJob: priority above the threshold goes to the priority list
PublishQueueName(message) ==
    IF message.priority > highPriorityThreshold THEN QueuePriority ELSE QueueMain

\* variant of BRPopSource: the keys are passed in the order main, priority
BRPopSourceMainFirst(qs) ==
    IF Len(qs[QueueMain]) > 0 THEN QueueMain
    ELSE IF Len(qs[QueuePriority]) > 0 THEN QueuePriority
    ELSE "none"

\* BRPOP over <<priority, main>>: the first non-empty list in argument order
BRPopSource(qs) ==
    IF Len(qs[QueuePriority]) > 0 THEN QueuePriority
    ELSE IF Len(qs[QueueMain]) > 0 THEN QueueMain
    ELSE "none"

\* lengths of the claimable lists
QueueLengths(qs) == [priority |-> Len(qs[QueuePriority]), main |-> Len(qs[QueueMain])]

SawNothing == [priority |-> 0, main |-> 0]

\* the lists ConsumeJob pops from
ClaimableQueues == {QueuePriority, QueueMain}

\* a sequence without the first occurrence of data
RECURSIVE RemoveFirst(_, _)
RemoveFirst(list, data) ==
    IF list = <<>> THEN <<>>
    ELSE IF Head(list) = data THEN Tail(list)
    ELSE <<Head(list)>> \o RemoveFirst(Tail(list), data)

\* ------------------------------------------------- heartbeats (redis.go)
heartbeatTTLMultiplier == 2
heartbeatTTLBufferSeconds == 10

\* seconds the clock advances in one step
TickSeconds == 5

\* heartbeat intervals (seconds) a caller passes as ttl
HeartbeatIntervals == {5, 10}

\* variant of heartbeatTTL: the buffer is added per interval
heartbeatTTLBufferPerInterval(ttl) ==
    ttl * heartbeatTTLMultiplier + heartbeatTTLBufferSeconds * heartbeatTTLMultiplier

\* heartbeatTTL := ttl*heartbeatTTLMultiplier + heartbeatTTLBufferSeconds*time.Second
heartbeatTTL(ttl) == ttl * heartbeatTTLMultiplier + heartbeatTTLBufferSeconds

\* no key workers:heartbeat:{id}
NoHeartbeat == [last_seen |-> 0, interval |-> 0, expires |-> 0]

\* ------------------------------------------------ job record store (jobs.go)
JobStatusPending == "pending"
JobStatusRunning == "running"
JobStatusSucceeded == "succeeded"
JobStatusFailed == "failed"

NoWorker == 0

\* a row that was never inserted
AbsentRow ==
    [exists |-> FALSE, status |-> "", worker_id |-> NoWorker,
     started_at |-> FALSE, completed_at |-> FALSE,
     result_path |-> "", error_message |-> ""]

\* the row CreateJob inserts
PendingRow ==
    [exists |-> TRUE, status |-> JobStatusPending, worker_id |-> NoWorker,
     started_at |-> FALSE, completed_at |-> FALSE,
     result_path |-> "", error_message |-> ""]

\* UPDATE jobs SET ... WHERE id = ? : number of rows matched
RowsAffected(rs, id) == IF rs[id].exists THEN 1 ELSE 0

\* UpdateStatus(id, Running, workerID): the SET clause of the Running case
UpdateStatusRunning(rs, id, workerID) ==
    IF rs[id].exists
    THEN [rs EXCEPT ![id].status = JobStatusRunning,
                    ![id].started_at = TRUE,
                    ![id].worker_id = workerID]
    ELSE rs

\* UpdateResult(id, resultPath)
UpdateResult(rs, id, resultPath) ==
    IF rs[id].exists
    THEN [rs EXCEPT ![id].result_path = resultPath,
                    ![id].status = JobStatusSucceeded,
                    ![id].completed_at = TRUE]
    ELSE rs

\* UpdateError(id, errorMessage)
UpdateError(rs, id, errorMessage) ==
    IF rs[id].exists
    THEN [rs EXCEPT ![id].error_message = errorMessage,
                    ![id].status = JobStatusFailed,
                    ![id].completed_at = TRUE]
    ELSE rs

\* ------------------------------------------------------------------- state
VARIABLES
    rows,          \* job id -> row of table jobs
    queues,        \* queue name -> Redis list
    publishOrder,  \* claimable queue -> its waiting messages, oldest publish first
    nPublished,    \* number of LPUSHes to the claimable lists so far
    jobSema,       \* worker -> number of permits held in the jobSema channel
    JobsActive,    \* worker -> value of the worker_jobs_active gauge
    loopPc,        \* worker -> position of jobLoop
    loopMsg,       \* worker -> message jobLoop holds between claim and spawn
    brpopSaw,      \* worker -> lengths of the claimable lists when that message was popped
    drivers,       \* bag of [worker, stage, msg]: the per-job goroutines
    ctxDone,       \* worker -> the context passed to Start is cancelled
    shutdownCh,    \* worker -> "open" | "closed"
    closerPc,      \* worker -> Start's goroutine that closes shutdownCh
    stopPc,        \* worker -> position of a Stop() call
    doneCh,        \* worker -> "open" | "closed"
    panicked,      \* worker -> the process died of a runtime panic
    queueDepth,    \* autoscaler: depth sample of the last tick
    currentReplicas, \* autoscaler: the replica knob
    prevReplicas,  \* autoscaler: the knob before the last tick
    targetReplicas, \* autoscaler: result of the rule in the last tick
    steadyTicks,   \* autoscaler: consecutive rule ticks that saw queueDepth
    lastTick,      \* autoscaler: what the last scaleWorkerDeployment call did
    now,           \* wall clock in seconds (time.Now().Unix())
    heartbeatKeys, \* worker id -> record under workers:heartbeat:{id} and its expiry
    startedAt,     \* job id -> time the last successful mark-running wrote to started_at
    nForeign,      \* number of list entries pushed by producers other than PublishJob
    feed,          \* autoscaler: the depth samples fed to the rule, one per tick
    series,        \* autoscaler: the starting replica count, then the target of every fed tick
    podTemplate,   \* worker deployment on the API server: everything but spec.replicas
    fresh,         \* updateDeploymentReplicas: freshDeployment as read by its Get
    scalePc        \* position of the tick of StartPeriodicScaling

workerVars == <<rows, queues, publishOrder, nPublished, jobSema, JobsActive, loopPc, loopMsg, brpopSaw,
                drivers, ctxDone, shutdownCh, closerPc, stopPc, doneCh, panicked>>

scalerVars == <<queueDepth, currentReplicas, prevReplicas, targetReplicas, steadyTicks,
                lastTick>>

ctlVars == <<feed, series, podTemplate, fresh, scalePc>>

auxVars == <<now, heartbeatKeys, startedAt, nForeign, ctlVars>>

vars == <<rows, queues, publishOrder, nPublished, jobSema, JobsActive, loopPc, loopMsg, brpopSaw,
          drivers, ctxDone, shutdownCh, closerPc, stopPc, doneCh, panicked,
          queueDepth, currentReplicas, prevReplicas, targetReplicas, steadyTicks,
          lastTick, now, heartbeatKeys, startedAt, nForeign,
          feed, series, podTemplate, fresh, scalePc>>

\* --------------------------------------------------------------- outcomes
\* A call that carries the worker's context (ExecContext, LPUSH) can fail for
\* substrate reasons at any time and always fails once the context is done.
CallOutcomes(w) == IF ctxDone[w] THEN {FALSE} ELSE BOOLEAN

\* the worker process has not died
Alive(w) == ~panicked[w]

\* ---------------------------------------------------------------- drivers
Driver(w, stage, message) == [worker |-> w, stage |-> stage, msg |-> message]

\* stages of the goroutine that jobLoop spawns for a message
ProcessJobStages == {"start", "shunt", "process", "record", "seterr", "recerr"}
DriverStages == ProcessJobStages \cup {"return", "released"}

\* one driver moves from one stage to the next
MoveDriver(w, from, to, message) ==
    (drivers (-) SetToBag({Driver(w, from, message)})) (+) SetToBag({Driver(w, to, message)})

HasDriver(w, stage, message) == BagIn(Driver(w, stage, message), drivers)

\* the messages for which worker w has a driver goroutine
DriverMessagesOf(w) == {d.msg : d \in {x \in BagToSet(drivers) : x.worker = w}}

\* number of goroutines of worker w whose stage is in the set
CountDrivers(w, stages) ==
    LET ds == {d \in BagToSet(drivers) : d.worker = w /\ d.stage \in stages}
        RECURSIVE Sum(_)
        Sum(S) == IF S = {} THEN 0
                  ELSE LET d == CHOOSE x \in S : TRUE
                       IN CopiesIn(d, drivers) + Sum(S \ {d})
    IN Sum(ds)

\* no scaleWorkerDeployment call has run yet
NoTick == [get |-> "none", probe |-> "none", patch |-> "none", event |-> "none",
           result |-> "none"]

\* the controller holds no copy of the worker deployment
NoDeployment == [replicas |-> 0, podTemplate |-> 0]

\* ------------------------------------------------------------------- Init
InitWorkers ==
    /\ rows = [j \in JobIds |-> AbsentRow]
    /\ queues = [q \in QueueNames |-> <<>>]
    /\ publishOrder = [q \in ClaimableQueues |-> <<>>]
    /\ nPublished = 0
    /\ jobSema = [w \in Workers |-> 0]
    /\ JobsActive = [w \in Workers |-> 0]
    /\ loopPc = [w \in Workers |-> "select"]
    /\ loopMsg = [w \in Workers |-> NoMessage]
    /\ brpopSaw = [w \in Workers |-> SawNothing]
    /\ drivers = EmptyBag
    /\ ctxDone = [w \in Workers |-> FALSE]
    /\ shutdownCh = [w \in Workers |-> "open"]
    /\ closerPc = [w \in Workers |-> "wait"]
    /\ stopPc = [w \in Workers |-> "idle"]
    /\ doneCh = [w \in Workers |-> "open"]
    /\ panicked = [w \in Workers |-> FALSE]

\* the clock starts at 0, no heartbeat key exists, no started_at was written,
\* the lists are empty
InitAux ==
    /\ now = 0
    /\ heartbeatKeys = [w \in Workers |-> NoHeartbeat]
    /\ startedAt = [j \in JobIds |-> 0]
    /\ nForeign = 0

\* the controller is between two ticks and holds no copy of the deployment
InitCtl ==
    /\ feed = <<>>
    /\ series = <<>>
    /\ podTemplate = 0
    /\ fresh = NoDeployment
    /\ scalePc = "tick"

Init ==
    /\ InitWorkers
    /\ InitAux
    /\ InitCtl
    /\ queueDepth = 0
    /\ currentReplicas = 1
    /\ prevReplicas = 1
    /\ targetReplicas = 1
    /\ steadyTicks = 0
    /\ lastTick = NoTick

\* ------------------------------------------------------------- publishers
\* handlers CreateJob: insert the Pending row, then publish with Priority 1.
\* uuid.New() yields an id no row has yet.
CreateJob(j) ==
    /\ ~rows[j].exists
    /\ nPublished < MaxPublish
    /\ \E dbOk \in BOOLEAN, pubOk \in BOOLEAN :
         LET message == [job_id |-> j, priority |-> 1]
             q == PublishQueueName(message)
         IN IF ~dbOk
            THEN UNCHANGED <<rows, queues, publishOrder, nPublished>>
            ELSE /\ rows' = [rows EXCEPT ![j] = PendingRow]
                 /\ IF pubOk
                    THEN /\ queues' = [queues EXCEPT ![q] = LPush(queues[q], message)]
                         /\ publishOrder' = [publishOrder EXCEPT ![q] = Append(@, message)]
                         /\ nPublished' = nPublished + 1
                    ELSE UNCHANGED <<queues, publishOrder, nPublished>>
    /\ UNCHANGED <<jobSema, JobsActive, loopPc, loopMsg, brpopSaw, drivers, ctxDone,
                   shutdownCh, closerPc, stopPc, doneCh, panicked, scalerVars, auxVars>>

\* RedisQueue.PublishJob called by any publisher with any message
PublishJob(message) ==
    /\ nPublished < MaxPublish
    /\ LET q == PublishQueueName(message)
       IN /\ queues' = [queues EXCEPT ![q] = LPush(queues[q], message)]
          /\ publishOrder' = [publishOrder EXCEPT ![q] = Append(@, message)]
    /\ nPublished' = nPublished + 1
    /\ UNCHANGED <<rows, jobSema, JobsActive, loopPc, loopMsg, brpopSaw, drivers, ctxDone,
                   shutdownCh, closerPc, stopPc, doneCh, panicked, scalerVars, auxVars>>

\* another client of the Redis instance LPUSHes an entry that is not the JSON
\* of a SubmitJobMessage onto a claimable list: the entry ConsumeJob's
\* json.Unmarshal rejects
ForeignLPush(q) ==
    /\ nPublished < MaxPublish
    /\ queues' = [queues EXCEPT ![q] = LPush(queues[q], Malformed)]
    /\ publishOrder' = [publishOrder EXCEPT ![q] = Append(@, Malformed)]
    /\ nPublished' = nPublished + 1
    /\ nForeign' = nForeign + 1
    /\ UNCHANGED <<rows, jobSema, JobsActive, loopPc, loopMsg, brpopSaw, drivers, ctxDone,
                   shutdownCh, closerPc, stopPc, doneCh, panicked, scalerVars,
                   now, heartbeatKeys, startedAt, ctlVars>>

\* --------------------------------------------------- clock and heartbeats
\* time passes
ClockTick ==
    /\ now < MaxClock
    /\ now' = now + TickSeconds
    /\ UNCHANGED <<workerVars, scalerVars, heartbeatKeys, startedAt, nForeign, ctlVars>>

\* RedisQueue.SetWorkerHeartbeat(ctx, workerID, ttl): SET key data EX heartbeatTTL;
\* on an error of the SET the key stays as it was
SetWorkerHeartbeat(workerID, ttl) ==
    /\ \E ok \in BOOLEAN :
         IF ok
         THEN heartbeatKeys' = [heartbeatKeys EXCEPT ![workerID] =
                                  [last_seen |-> now, interval |-> ttl,
                                   expires |-> now + heartbeatTTL(ttl)]]
         ELSE heartbeatKeys' = heartbeatKeys
    /\ UNCHANGED <<workerVars, scalerVars, now, startedAt, nForeign, ctlVars>>

\* KEYS workers:heartbeat:* : Redis drops a key once its TTL has run out
HeartbeatKeyExists(workerID) == heartbeatKeys[workerID].expires > now

\* RedisQueue.GetActiveWorkers: the worker ids of the keys found whose GET and
\* decode succeed (the others are skipped)
GetActiveWorkers(readable) == {w \in Workers : HeartbeatKeyExists(w) /\ w \in readable}

\* ---------------------------------------------------------- dispatch loop
\* the outer select of jobLoop finds ctx.Done() or shutdownCh ready
ShutdownSignalled(w) == ctxDone[w] \/ shutdownCh[w] = "closed"

\* variant of SemaHasRoom: the send never blocks
SemaHasRoomAlways(w) == jobSema[w] >= 0

\* variant of SemaHasRoom: the channel is allocated one slot too large
SemaHasRoomOffByOne(w) == jobSema[w] <= ConcurrentJobs

\* jobSema <- struct{}{} can proceed: the buffered channel is not full
SemaHasRoom(w) == jobSema[w] < ConcurrentJobs

\* outer select, case <-ctx.Done() / case <-w.shutdownCh: return
LoopExit(w) ==
    /\ Alive(w)
    /\ loopPc[w] = "select"
    /\ ShutdownSignalled(w)
    /\ loopPc' = [loopPc EXCEPT ![w] = "exited"]
    /\ UNCHANGED <<rows, queues, publishOrder, nPublished, jobSema, JobsActive, loopMsg, brpopSaw, drivers,
                   ctxDone, shutdownCh, closerPc, stopPc, doneCh, panicked, scalerVars, auxVars>>

\* variant of LoopDefault: the loop goes on only when no driver holds a permit
LoopDefaultWaitsForDrivers(w) ==
    /\ Alive(w)
    /\ loopPc[w] = "select"
    /\ ~ShutdownSignalled(w)
    /\ CountDrivers(w, DriverStages \ {"released"}) = 0
    /\ loopPc' = [loopPc EXCEPT ![w] = "consume"]
    /\ UNCHANGED <<rows, queues, publishOrder, nPublished, jobSema, JobsActive, loopMsg, brpopSaw, drivers,
                   ctxDone, shutdownCh, closerPc, stopPc, doneCh, panicked, scalerVars, auxVars>>

\* outer select, default: neither channel is ready, go on to ConsumeJob
LoopDefault(w) ==
    /\ Alive(w)
    /\ loopPc[w] = "select"
    /\ ~ShutdownSignalled(w)
    /\ loopPc' = [loopPc EXCEPT ![w] = "consume"]
    /\ UNCHANGED <<rows, queues, publishOrder, nPublished, jobSema, JobsActive, loopMsg, brpopSaw, drivers,
                   ctxDone, shutdownCh, closerPc, stopPc, doneCh, panicked, scalerVars, auxVars>>

\* ConsumeJob: BRPOP priority, main; a decoded message goes on to the permit
\* select. After ErrNoJobsAvailable, a substrate error or an entry that does
\* not decode (it is popped all the same) the loop sleeps PollInterval and
\* continues with the outer select
LoopConsume(w) ==
    /\ Alive(w)
    /\ loopPc[w] = "consume"
    /\ \E ok \in CallOutcomes(w) :
         LET q == BRPopSource(queues)
         IN IF ok /\ q # "none"
            THEN /\ queues' = [queues EXCEPT ![q] = RPopRest(queues[q])]
                 /\ publishOrder' = [publishOrder EXCEPT
                                        ![q] = RemoveFirst(@, RPopValue(queues[q]))]
                 /\ IF UnmarshalOk(RPopValue(queues[q]))
                    THEN /\ loopMsg' = [loopMsg EXCEPT ![w] = RPopValue(queues[q])]
                         /\ brpopSaw' = [brpopSaw EXCEPT ![w] = QueueLengths(queues)]
                         /\ loopPc' = [loopPc EXCEPT ![w] = "acquire"]
                    ELSE /\ loopPc' = [loopPc EXCEPT ![w] = "select"]
                         /\ UNCHANGED <<loopMsg, brpopSaw>>
            ELSE /\ loopPc' = [loopPc EXCEPT ![w] = "select"]
                 /\ UNCHANGED <<loopMsg, brpopSaw, queues, publishOrder>>
    /\ UNCHANGED <<rows, nPublished, jobSema, JobsActive, drivers,
                   ctxDone, shutdownCh, closerPc, stopPc, doneCh, panicked, scalerVars, auxVars>>

\* inner select, case w.jobSema <- struct{}{}
LoopAcquire(w) ==
    /\ Alive(w)
    /\ loopPc[w] = "acquire"
    /\ SemaHasRoom(w)
    /\ jobSema' = [jobSema EXCEPT ![w] = @ + 1]
    /\ loopPc' = [loopPc EXCEPT ![w] = "acquired"]
    /\ UNCHANGED <<rows, queues, publishOrder, nPublished, JobsActive, loopMsg, brpopSaw, drivers,
                   ctxDone, shutdownCh, closerPc, stopPc, doneCh, panicked, scalerVars, auxVars>>

\* variant of LoopAbandon: the claimed message is pushed back before returning
LoopAbandonRequeues(w) ==
    /\ Alive(w)
    /\ loopPc[w] = "acquire"
    /\ ShutdownSignalled(w)
    /\ loopPc' = [loopPc EXCEPT ![w] = "exited"]
    /\ queues' = [queues EXCEPT ![PublishQueueName(loopMsg[w])] = LPush(@, loopMsg[w])]
    /\ UNCHANGED <<rows, publishOrder, nPublished, jobSema, JobsActive, drivers,
                   loopMsg, brpopSaw,
                   ctxDone, shutdownCh, closerPc, stopPc, doneCh, panicked, scalerVars, auxVars>>

\* inner select, case <-ctx.Done() / case <-w.shutdownCh: return. Nothing takes
\* over the message the loop holds: loopMsg keeps it as the message that was
\* dropped when jobLoop returned
LoopAbandon(w) ==
    /\ Alive(w)
    /\ loopPc[w] = "acquire"
    /\ ShutdownSignalled(w)
    /\ loopPc' = [loopPc EXCEPT ![w] = "exited"]
    /\ UNCHANGED <<rows, queues, publishOrder, nPublished, jobSema, JobsActive, drivers,
                   loopMsg, brpopSaw,
                   ctxDone, shutdownCh, closerPc, stopPc, doneCh, panicked, scalerVars, auxVars>>

\* JobsActive.Inc() and go func(msg): the driver goroutine exists from here on
LoopStartDriver(w) ==
    /\ Alive(w)
    /\ loopPc[w] = "acquired"
    /\ JobsActive' = [JobsActive EXCEPT ![w] = @ + 1]
    /\ drivers' = drivers (+) SetToBag({Driver(w, "start", loopMsg[w])})
    /\ loopMsg' = [loopMsg EXCEPT ![w] = NoMessage]
    /\ brpopSaw' = [brpopSaw EXCEPT ![w] = SawNothing]
    /\ loopPc' = [loopPc EXCEPT ![w] = "select"]
    /\ UNCHANGED <<rows, queues, publishOrder, nPublished, jobSema,
                   ctxDone, shutdownCh, closerPc, stopPc, doneCh, panicked, scalerVars, auxVars>>

\* ------------------------------------------------------- per-job driver
\* processJob, J1: UpdateStatus(id, Running, &workerID). An exec error or zero
\* rows affected sends the driver to PublishToFailedQueue.
DriverMarkRunning(w, message) ==
    /\ Alive(w)
    /\ HasDriver(w, "start", message)
    /\ \E ok \in CallOutcomes(w) :
         IF ok /\ RowsAffected(rows, message.job_id) # 0
         THEN /\ rows' = UpdateStatusRunning(rows, message.job_id, w)
              /\ startedAt' = [startedAt EXCEPT ![message.job_id] = now]
              /\ drivers' = MoveDriver(w, "start", "process", message)
         ELSE /\ rows' = rows
              /\ startedAt' = startedAt
              /\ drivers' = MoveDriver(w, "start", "shunt", message)
    /\ UNCHANGED <<queues, publishOrder, nPublished, jobSema, JobsActive, loopPc, loopMsg, brpopSaw,
                   ctxDone, shutdownCh, closerPc, stopPc, doneCh, panicked, scalerVars,
                   now, heartbeatKeys, nForeign, ctlVars>>

\* variant of DriverShuntFailed: the message goes back to its claimable list
DriverShuntFailedRequeues(w, message) ==
    /\ Alive(w)
    /\ HasDriver(w, "shunt", message)
    /\ \E ok \in CallOutcomes(w) :
         IF ok
         THEN queues' = [queues EXCEPT ![PublishQueueName(message)] = LPush(@, message)]
         ELSE queues' = queues
    /\ drivers' = MoveDriver(w, "shunt", "return", message)
    /\ UNCHANGED <<rows, publishOrder, nPublished, jobSema, JobsActive, loopPc, loopMsg, brpopSaw,
                   ctxDone, shutdownCh, closerPc, stopPc, doneCh, panicked, scalerVars, auxVars>>

\* variant of DriverShuntFailed: the driver also records the failure on the row
DriverShuntFailedTouchesRow(w, message) ==
    /\ Alive(w)
    /\ HasDriver(w, "shunt", message)
    /\ \E ok \in CallOutcomes(w) :
         IF ok
         THEN queues' = [queues EXCEPT ![QueueFailed] =
                            LPush(queues[QueueFailed], FailedEnvelope(message, "update job status"))]
         ELSE queues' = queues
    /\ rows' = UpdateError(rows, message.job_id, "update job status")
    /\ drivers' = MoveDriver(w, "shunt", "return", message)
    /\ UNCHANGED <<publishOrder, nPublished, jobSema, JobsActive, loopPc, loopMsg, brpopSaw,
                   ctxDone, shutdownCh, closerPc, stopPc, doneCh, panicked, scalerVars, auxVars>>

\* processJob, J1 failure: PublishToFailedQueue (its error is only logged), return
DriverShuntFailed(w, message) ==
    /\ Alive(w)
    /\ HasDriver(w, "shunt", message)
    /\ \E ok \in CallOutcomes(w) :
         IF ok
         THEN queues' = [queues EXCEPT ![QueueFailed] =
                            LPush(queues[QueueFailed], FailedEnvelope(message, "update job status"))]
         ELSE queues' = queues
    /\ drivers' = MoveDriver(w, "shunt", "return", message)
    /\ UNCHANGED <<rows, publishOrder, nPublished, jobSema, JobsActive, loopPc, loopMsg, brpopSaw,
                   ctxDone, shutdownCh, closerPc, stopPc, doneCh, panicked, scalerVars, auxVars>>

\* variant of DriverProcess: a failed transform goes to the failed queue
DriverProcessShunts(w, message) ==
    /\ Alive(w)
    /\ HasDriver(w, "process", message)
    /\ \E ok \in BOOLEAN :
         drivers' = MoveDriver(w, "process", IF ok THEN "record" ELSE "shunt", message)
    /\ UNCHANGED <<rows, queues, publishOrder, nPublished, jobSema, JobsActive, loopPc,
                   loopMsg, brpopSaw, ctxDone, shutdownCh, closerPc, stopPc, doneCh,
                   panicked, scalerVars, auxVars>>

\* processJob, J2: textProcessor.Process returns an output path or an error
DriverProcess(w, message) ==
    /\ Alive(w)
    /\ HasDriver(w, "process", message)
    /\ \E ok \in BOOLEAN :
         drivers' = MoveDriver(w, "process", IF ok THEN "record" ELSE "seterr", message)
    /\ UNCHANGED <<rows, queues, publishOrder, nPublished, jobSema, JobsActive, loopPc, loopMsg, brpopSaw,
                   ctxDone, shutdownCh, closerPc, stopPc, doneCh, panicked, scalerVars, auxVars>>

\* variant of DriverRecord: a failed set-result goes to the failed queue
DriverRecordShunts(w, message) ==
    /\ Alive(w)
    /\ HasDriver(w, "record", message)
    /\ \E ok \in CallOutcomes(w) :
         IF ok /\ RowsAffected(rows, message.job_id) # 0
         THEN /\ rows' = UpdateResult(rows, message.job_id, "result")
              /\ drivers' = MoveDriver(w, "record", "return", message)
         ELSE /\ rows' = rows
              /\ drivers' = MoveDriver(w, "record", "shunt", message)
    /\ UNCHANGED <<queues, publishOrder, nPublished, jobSema, JobsActive, loopPc, loopMsg,
                   brpopSaw, ctxDone, shutdownCh, closerPc, stopPc, doneCh, panicked,
                   scalerVars, auxVars>>

\* processJob, J3: UpdateResult(id, outputPath); on error go on to UpdateError
DriverRecord(w, message) ==
    /\ Alive(w)
    /\ HasDriver(w, "record", message)
    /\ \E ok \in CallOutcomes(w) :
         IF ok /\ RowsAffected(rows, message.job_id) # 0
         THEN /\ rows' = UpdateResult(rows, message.job_id, "result")
              /\ drivers' = MoveDriver(w, "record", "return", message)
         ELSE /\ rows' = rows
              /\ drivers' = MoveDriver(w, "record", "recerr", message)
    /\ UNCHANGED <<queues, publishOrder, nPublished, jobSema, JobsActive, loopPc, loopMsg, brpopSaw,
                   ctxDone, shutdownCh, closerPc, stopPc, doneCh, panicked, scalerVars, auxVars>>

\* variant of DriverSetError: this return path skips the receive from jobSema
DriverSetErrorKeepsPermit(w, message) ==
    /\ Alive(w)
    /\ HasDriver(w, "seterr", message)
    /\ \E ok \in CallOutcomes(w) :
         IF ok /\ RowsAffected(rows, message.job_id) # 0
         THEN rows' = UpdateError(rows, message.job_id, "error")
         ELSE rows' = rows
    /\ drivers' = MoveDriver(w, "seterr", "released", message)
    /\ UNCHANGED <<queues, publishOrder, nPublished, jobSema, JobsActive, loopPc, loopMsg, brpopSaw,
                   ctxDone, shutdownCh, closerPc, stopPc, doneCh, panicked, scalerVars, auxVars>>

\* processJob, failure of J2: UpdateError(id, err.Error()), its error only logged
DriverSetError(w, message) ==
    /\ Alive(w)
    /\ HasDriver(w, "seterr", message)
    /\ \E ok \in CallOutcomes(w) :
         IF ok /\ RowsAffected(rows, message.job_id) # 0
         THEN rows' = UpdateError(rows, message.job_id, "error")
         ELSE rows' = rows
    /\ drivers' = MoveDriver(w, "seterr", "return", message)
    /\ UNCHANGED <<queues, publishOrder, nPublished, jobSema, JobsActive, loopPc, loopMsg, brpopSaw,
                   ctxDone, shutdownCh, closerPc, stopPc, doneCh, panicked, scalerVars, auxVars>>

\* processJob, failure of J3: UpdateError(id, err.Error()) with the error of
\* UpdateResult, its own error only logged
DriverSetErrorAfterRecord(w, message) ==
    /\ Alive(w)
    /\ HasDriver(w, "recerr", message)
    /\ \E ok \in CallOutcomes(w) :
         IF ok /\ RowsAffected(rows, message.job_id) # 0
         THEN rows' = UpdateError(rows, message.job_id, "update job result")
         ELSE rows' = rows
    /\ drivers' = MoveDriver(w, "recerr", "return", message)
    /\ UNCHANGED <<queues, publishOrder, nPublished, jobSema, JobsActive, loopPc, loopMsg, brpopSaw,
                   ctxDone, shutdownCh, closerPc, stopPc, doneCh, panicked, scalerVars, auxVars>>

\* deferred function of the goroutine, first statement: <-w.jobSema
DriverRelease(w, message) ==
    /\ Alive(w)
    /\ HasDriver(w, "return", message)
    /\ jobSema' = [jobSema EXCEPT ![w] = @ - 1]
    /\ drivers' = MoveDriver(w, "return", "released", message)
    /\ UNCHANGED <<rows, queues, publishOrder, nPublished, JobsActive, loopPc, loopMsg, brpopSaw,
                   ctxDone, shutdownCh, closerPc, stopPc, doneCh, panicked, scalerVars, auxVars>>

\* deferred function, second statement: JobsActive.Dec(); the goroutine ends
DriverGaugeDec(w, message) ==
    /\ Alive(w)
    /\ HasDriver(w, "released", message)
    /\ JobsActive' = [JobsActive EXCEPT ![w] = @ - 1]
    /\ drivers' = drivers (-) SetToBag({Driver(w, "released", message)})
    /\ UNCHANGED <<rows, queues, publishOrder, nPublished, jobSema, loopPc, loopMsg, brpopSaw,
                   ctxDone, shutdownCh, closerPc, stopPc, doneCh, panicked, scalerVars, auxVars>>

\* ---------------------------------------------------------------- shutdown
\* close(ch) of Go: a second close is a runtime panic that ends the process
CloseShutdownCh(w) ==
    IF shutdownCh[w] = "closed"
    THEN /\ panicked' = [panicked EXCEPT ![w] = TRUE]
         /\ shutdownCh' = shutdownCh
    ELSE /\ shutdownCh' = [shutdownCh EXCEPT ![w] = "closed"]
         /\ panicked' = panicked

\* the host cancels the context passed to Start (SIGINT/SIGTERM in main)
CancelCtx(w) ==
    /\ Alive(w)
    /\ ~ctxDone[w]
    /\ ctxDone' = [ctxDone EXCEPT ![w] = TRUE]
    /\ UNCHANGED <<rows, queues, publishOrder, nPublished, jobSema, JobsActive, loopPc, loopMsg, brpopSaw,
                   drivers, shutdownCh, closerPc, stopPc, doneCh, panicked, scalerVars, auxVars>>

\* Start, second goroutine: <-ctx.Done(); close(w.shutdownCh)
StartCloser(w) ==
    /\ Alive(w)
    /\ closerPc[w] = "wait"
    /\ ctxDone[w]
    /\ CloseShutdownCh(w)
    /\ closerPc' = [closerPc EXCEPT ![w] = "done"]
    /\ UNCHANGED <<rows, queues, publishOrder, nPublished, jobSema, JobsActive, loopPc, loopMsg, brpopSaw,
                   drivers, ctxDone, stopPc, doneCh, scalerVars, auxVars>>

\* Start: wg.Wait() for jobLoop and the closer, then close(w.doneCh)
StartReturn(w) ==
    /\ Alive(w)
    /\ doneCh[w] = "open"
    /\ loopPc[w] = "exited"
    /\ closerPc[w] = "done"
    /\ doneCh' = [doneCh EXCEPT ![w] = "closed"]
    /\ UNCHANGED <<rows, queues, publishOrder, nPublished, jobSema, JobsActive, loopPc, loopMsg, brpopSaw,
                   drivers, ctxDone, shutdownCh, closerPc, stopPc, panicked, scalerVars, auxVars>>

\* Stop: close(w.shutdownCh), then wait on doneCh
Stop(w) ==
    /\ Alive(w)
    /\ stopPc[w] = "idle"
    /\ CloseShutdownCh(w)
    /\ stopPc' = [stopPc EXCEPT ![w] = "waiting"]
    /\ UNCHANGED <<rows, queues, publishOrder, nPublished, jobSema, JobsActive, loopPc, loopMsg, brpopSaw,
                   drivers, ctxDone, closerPc, doneCh, scalerVars, auxVars>>

\* Stop: <-w.doneCh returns
StopReturn(w) ==
    /\ Alive(w)
    /\ stopPc[w] = "waiting"
    /\ doneCh[w] = "closed"
    /\ stopPc' = [stopPc EXCEPT ![w] = "returned"]
    /\ UNCHANGED <<rows, queues, publishOrder, nPublished, jobSema, JobsActive, loopPc, loopMsg, brpopSaw,
                   drivers, ctxDone, shutdownCh, closerPc, doneCh, panicked, scalerVars, auxVars>>

\* ------------------------------------------------------------------- Next
\* publishers, dispatch loops and drivers while no shutdown is under way
Next ==
    \/ \E j \in JobIds : CreateJob(j)
    \/ \E message \in SubmitJobMessage : PublishJob(message)
    \/ \E w \in Workers : LoopDefault(w)
    \/ \E w \in Workers : LoopConsume(w)
    \/ \E w \in Workers : LoopAcquire(w)
    \/ \E w \in Workers : LoopStartDriver(w)
    \/ \E w \in Workers : \E message \in DriverMessagesOf(w) : DriverMarkRunning(w, message)
    \/ \E w \in Workers : \E message \in DriverMessagesOf(w) : DriverShuntFailed(w, message)
    \/ \E w \in Workers : \E message \in DriverMessagesOf(w) : DriverProcess(w, message)
    \/ \E w \in Workers : \E message \in DriverMessagesOf(w) : DriverRecord(w, message)
    \/ \E w \in Workers : \E message \in DriverMessagesOf(w) : DriverSetError(w, message)
    \/ \E w \in Workers : \E message \in DriverMessagesOf(w) : DriverSetErrorAfterRecord(w, message)
    \/ \E w \in Workers : \E message \in DriverMessagesOf(w) : DriverRelease(w, message)
    \/ \E w \in Workers : \E message \in DriverMessagesOf(w) : DriverGaugeDec(w, message)

\* the same with the shutdown paths of Start, Stop and jobLoop
NextLifecycle ==
    \/ Next
    \/ \E w \in Workers : LoopExit(w)
    \/ \E w \in Workers : LoopAbandon(w)
    \/ \E w \in Workers : CancelCtx(w)
    \/ \E w \in Workers : StartCloser(w)
    \/ \E w \in Workers : StartReturn(w)
    \/ \E w \in Workers : Stop(w)
    \/ \E w \in Workers : StopReturn(w)

Spec == Init /\ [][Next]_vars

\* the worker whose dispatch loop and drivers SpecSolo follows
SoloWorkers == {w \in Workers : \A v \in Workers : w <= v}

\* Next with a single worker process consuming: the other workers are not started
NextSolo ==
    \/ \E j \in JobIds : CreateJob(j)
    \/ \E message \in SubmitJobMessage : PublishJob(message)
    \/ \E w \in SoloWorkers : LoopDefault(w)
    \/ \E w \in SoloWorkers : LoopConsume(w)
    \/ \E w \in SoloWorkers : LoopAcquire(w)
    \/ \E w \in SoloWorkers : LoopStartDriver(w)
    \/ \E w \in SoloWorkers : \E message \in DriverMessagesOf(w) : DriverMarkRunning(w, message)
    \/ \E w \in SoloWorkers : \E message \in DriverMessagesOf(w) : DriverShuntFailed(w, message)
    \/ \E w \in SoloWorkers : \E message \in DriverMessagesOf(w) : DriverProcess(w, message)
    \/ \E w \in SoloWorkers : \E message \in DriverMessagesOf(w) : DriverRecord(w, message)
    \/ \E w \in SoloWorkers : \E message \in DriverMessagesOf(w) : DriverSetError(w, message)
    \/ \E w \in SoloWorkers : \E message \in DriverMessagesOf(w) : DriverSetErrorAfterRecord(w, message)
    \/ \E w \in SoloWorkers : \E message \in DriverMessagesOf(w) : DriverRelease(w, message)
    \/ \E w \in SoloWorkers : \E message \in DriverMessagesOf(w) : DriverGaugeDec(w, message)

SpecSolo == Init /\ [][NextSolo]_vars

\* NextSolo on lists that other clients of the Redis instance write to as well
NextSoloForeign ==
    \/ NextSolo
    \/ \E q \in ClaimableQueues : ForeignLPush(q)

SpecSoloForeign == Init /\ [][NextSoloForeign]_vars

\* the two messages of the priority scenario: B below the threshold for one
\* job, C above it for another
MessageB == [job_id |-> 1, priority |-> 1]
MessageC == [job_id |-> 2, priority |-> 9]

\* B was published, then C, both rows are Pending, and the worker has not
\* claimed yet
InitScenario ==
    /\ rows = [j \in JobIds |-> IF j \in {MessageB.job_id, MessageC.job_id}
                                 THEN PendingRow ELSE AbsentRow]
    /\ queues = [q \in QueueNames |->
                   IF q = QueueMain THEN LPush(<<>>, MessageB)
                   ELSE IF q = QueuePriority THEN LPush(<<>>, MessageC)
                   ELSE <<>>]
    /\ publishOrder = [q \in ClaimableQueues |->
                         IF q = QueueMain THEN <<MessageB>> ELSE <<MessageC>>]
    /\ nPublished = 2
    /\ jobSema = [w \in Workers |-> 0]
    /\ JobsActive = [w \in Workers |-> 0]
    /\ loopPc = [w \in Workers |-> "select"]
    /\ loopMsg = [w \in Workers |-> NoMessage]
    /\ brpopSaw = [w \in Workers |-> SawNothing]
    /\ drivers = EmptyBag
    /\ ctxDone = [w \in Workers |-> FALSE]
    /\ shutdownCh = [w \in Workers |-> "open"]
    /\ closerPc = [w \in Workers |-> "wait"]
    /\ stopPc = [w \in Workers |-> "idle"]
    /\ doneCh = [w \in Workers |-> "open"]
    /\ panicked = [w \in Workers |-> FALSE]
    /\ InitAux
    /\ InitCtl
    /\ queueDepth = 0
    /\ currentReplicas = 1
    /\ prevReplicas = 1
    /\ targetReplicas = 1
    /\ steadyTicks = 0
    /\ lastTick = NoTick

\* the single worker, with nothing published any more
NextScenario ==
    \/ \E w \in SoloWorkers : LoopDefault(w)
    \/ \E w \in SoloWorkers : LoopConsume(w)
    \/ \E w \in SoloWorkers : LoopAcquire(w)
    \/ \E w \in SoloWorkers : LoopStartDriver(w)
    \/ \E w \in SoloWorkers : \E message \in DriverMessagesOf(w) : DriverMarkRunning(w, message)
    \/ \E w \in SoloWorkers : \E message \in DriverMessagesOf(w) : DriverShuntFailed(w, message)
    \/ \E w \in SoloWorkers : \E message \in DriverMessagesOf(w) : DriverProcess(w, message)
    \/ \E w \in SoloWorkers : \E message \in DriverMessagesOf(w) : DriverRecord(w, message)
    \/ \E w \in SoloWorkers : \E message \in DriverMessagesOf(w) : DriverSetError(w, message)
    \/ \E w \in SoloWorkers : \E message \in DriverMessagesOf(w) : DriverSetErrorAfterRecord(w, message)
    \/ \E w \in SoloWorkers : \E message \in DriverMessagesOf(w) : DriverRelease(w, message)
    \/ \E w \in SoloWorkers : \E message \in DriverMessagesOf(w) : DriverGaugeDec(w, message)

SpecScenario == InitScenario /\ [][NextScenario]_vars

\* NextSolo while time passes
NextSoloClock ==
    \/ NextSolo
    \/ ClockTick

SpecSoloClock == Init /\ [][NextSoloClock]_vars

\* callers of SetWorkerHeartbeat with any worker id and interval, while time passes
NextHeartbeat ==
    \/ \E workerID \in Workers, ttl \in HeartbeatIntervals : SetWorkerHeartbeat(workerID, ttl)
    \/ ClockTick

SpecHeartbeat == Init /\ [][NextHeartbeat]_vars

SpecLifecycle == Init /\ [][NextLifecycle]_vars

\* NextSolo with the shutdown paths of Start, Stop and jobLoop of that worker.
\* The receive on doneCh in Stop is not a step here: doneCh is closed only
\* after the closer goroutine closed shutdownCh, and Stop closes it as well, so
\* one of the two closes panics before that receive can complete.
NextSoloLifecycle ==
    \/ NextSolo
    \/ \E w \in SoloWorkers : LoopExit(w)
    \/ \E w \in SoloWorkers : LoopAbandon(w)
    \/ \E w \in SoloWorkers : CancelCtx(w)
    \/ \E w \in SoloWorkers : StartCloser(w)
    \/ \E w \in SoloWorkers : StartReturn(w)
    \/ \E w \in SoloWorkers : Stop(w)

SpecSoloLifecycle == Init /\ [][NextSoloLifecycle]_vars

\* the steps of the goroutines of one worker process: jobLoop, the drivers,
\* the closer goroutine and Start itself
WorkerSteps(w) ==
    \/ LoopExit(w)
    \/ LoopDefault(w)
    \/ LoopConsume(w)
    \/ LoopAcquire(w)
    \/ LoopAbandon(w)
    \/ LoopStartDriver(w)
    \/ \E message \in DriverMessagesOf(w) : DriverMarkRunning(w, message)
    \/ \E message \in DriverMessagesOf(w) : DriverShuntFailed(w, message)
    \/ \E message \in DriverMessagesOf(w) : DriverProcess(w, message)
    \/ \E message \in DriverMessagesOf(w) : DriverRecord(w, message)
    \/ \E message \in DriverMessagesOf(w) : DriverSetError(w, message)
    \/ \E message \in DriverMessagesOf(w) : DriverSetErrorAfterRecord(w, message)
    \/ \E message \in DriverMessagesOf(w) : DriverRelease(w, message)
    \/ \E message \in DriverMessagesOf(w) : DriverGaugeDec(w, message)
    \/ StartCloser(w)
    \/ StartReturn(w)

\* SpecSoloLifecycle with the Go scheduler running every goroutine that can
\* take a step; publishers, Stop and the cancellation of the context are up
\* to the environment
SpecSoloStop ==
    Init /\ [][NextSoloLifecycle]_vars /\ \A w \in SoloWorkers : WF_vars(WorkerSteps(w))

\* ------------------------------------------ autoscaler (controller metrics.go)
DefaultMinReplicas == 1
DefaultMaxReplicas == 10
ScaleUpThreshold == 20
ScaleDownThreshold == 5
JobsPerWorker == 10

\* the literal in min(currentReplicas+2, neededReplicas)
ScaleUpStep == 2

\* the literal in currentReplicas - 1
ScaleDownStep == 1

\* func min(a, b int32) int32
min(a, b) == IF a < b THEN a ELSE b

\* ceiling division and the int32 conversion with its overflow protection; the
\* conversion is the identity on every depth the model can represent
NeededReplicas(depth) ==
    LET needed == (depth + JobsPerWorker - 1) \div JobsPerWorker
    IN IF needed < 0 THEN DefaultMaxReplicas ELSE needed

\* variant of ScaleUpTarget: the growth is not limited by the needed count
ScaleUpTargetUncapped(depth, current) == current + ScaleUpStep

\* branch queueDepth > ScaleUpThreshold
ScaleUpTarget(depth, current) == min(current + ScaleUpStep, NeededReplicas(depth))

\* variant of ScaleDownApplies: the threshold itself counts as low
ScaleDownAppliesInclusive(depth, current) ==
    depth <= ScaleDownThreshold /\ current > DefaultMinReplicas

\* condition of the branch that scales down gradually
ScaleDownApplies(depth, current) ==
    depth < ScaleDownThreshold /\ current > DefaultMinReplicas

\* variant of ClampReplicas: the upper constraint is missing
ClampReplicasNoUpper(target) ==
    IF target < DefaultMinReplicas THEN DefaultMinReplicas ELSE target

\* variant of ClampReplicas: the upper constraint assigns the wrong constant
ClampReplicasWrongConstant(target) ==
    IF target < DefaultMinReplicas THEN DefaultMinReplicas
    ELSE IF target > DefaultMaxReplicas THEN DefaultMinReplicas
    ELSE target

\* "Apply constraints"
ClampReplicas(target) ==
    IF target < DefaultMinReplicas THEN DefaultMinReplicas
    ELSE IF target > DefaultMaxReplicas THEN DefaultMaxReplicas
    ELSE target

\* Worker.calculateOptimalReplicas(stats, currentReplicas), stats.TotalDepth = depth
calculateOptimalReplicas(depth, current) ==
    ClampReplicas(
        IF depth = 0 THEN DefaultMinReplicas
        ELSE IF depth > ScaleUpThreshold THEN ScaleUpTarget(depth, current)
        ELSE IF ScaleDownApplies(depth, current) THEN current - ScaleDownStep
        ELSE current)

\* the replica knob starts anywhere in [MIN, MAX]; no tick has happened yet
InitRule ==
    /\ InitWorkers
    /\ InitAux
    /\ InitCtl
    /\ queueDepth \in 0..MaxDepth
    /\ currentReplicas \in DefaultMinReplicas..DefaultMaxReplicas
    /\ prevReplicas = currentReplicas
    /\ targetReplicas = currentReplicas
    /\ steadyTicks = 0
    /\ lastTick = NoTick

\* the rule applied to the depth sample: the knob takes the target
RuleStep(depth) ==
    /\ queueDepth' = depth
    /\ prevReplicas' = currentReplicas
    /\ targetReplicas' = calculateOptimalReplicas(depth, currentReplicas)
    /\ currentReplicas' = calculateOptimalReplicas(depth, currentReplicas)
    /\ steadyTicks' = IF depth = queueDepth THEN min(steadyTicks + 1, MaxSteady) ELSE 1
    /\ UNCHANGED <<workerVars, lastTick>>

\* one tick of the rule on an arbitrary depth sample
RuleTick(depth) ==
    /\ RuleStep(depth)
    /\ UNCHANGED auxVars

\* any sequence of depth samples
NextRule == \E depth \in 0..MaxDepth : RuleTick(depth)

SpecRule == InitRule /\ [][NextRule]_vars

\* a tick that sees the depth of the tick before
SteadyTick == RuleTick(queueDepth)

\* constant depth; the ticker of StartPeriodicScaling keeps firing
SpecSteady == InitRule /\ [][SteadyTick]_vars /\ WF_vars(SteadyTick)

\* a ramp of depth samples: idle, a plateau of four ticks, idle again
RampFeed(depth) == <<0, 0, depth, depth, depth, depth, 0, 0>>

\* plateau depths of the ramps: inside the band, 50, and beyond MAX * PER_WORKER
PlateauDepths == {ScaleUpThreshold, 50, 70, MaxDepth}

\* the knob starts anywhere in [MIN, MAX] and one of the ramps will be fed
InitRamp ==
    /\ InitWorkers
    /\ InitAux
    /\ \E depth \in PlateauDepths : feed = RampFeed(depth)
    /\ currentReplicas \in DefaultMinReplicas..DefaultMaxReplicas
    /\ series = <<currentReplicas>>
    /\ podTemplate = 0
    /\ fresh = NoDeployment
    /\ scalePc = "tick"
    /\ queueDepth = 0
    /\ prevReplicas = currentReplicas
    /\ targetReplicas = currentReplicas
    /\ steadyTicks = 0
    /\ lastTick = NoTick

\* one tick on the next sample of the feed; the target joins the series
RampTick ==
    /\ Len(series) <= Len(feed)
    /\ RuleStep(feed[Len(series)])
    /\ series' = Append(series, calculateOptimalReplicas(feed[Len(series)], currentReplicas))
    /\ UNCHANGED <<now, heartbeatKeys, startedAt, nForeign, feed, podTemplate, fresh, scalePc>>

SpecRamp == InitRamp /\ [][RampTick]_vars

\* outcomes of r.Get on the worker deployment
GetOutcomes == {"ok", "notfound", "error"}

\* outcomes of updateDeploymentReplicas: Get of the fresh object and Patch both
\* succeed, Patch is rejected with a conflict, or one of the two fails otherwise
PatchOutcomes == {"ok", "conflict", "error"}

\* getQueueStats: GetAllQueuesLength and GetActiveWorkers; either can fail
getQueueStats(probeOk, depth) == IF probeOk THEN depth ELSE -1

\* scaleWorkerDeployment after err != nil from getQueueStats:
\* queueStats = &QueueStats{TotalDepth: 0, ...}
StatsTotalDepth(probed) == IF probed < 0 THEN 0 ELSE probed

\* variant of PatchError: a conflict is returned like any other error
PatchErrorOnConflict(patchOutcome) == patchOutcome # "ok"

\* updateDeploymentReplicas returns an error: nil on success and on a conflict
PatchError(patchOutcome) == patchOutcome = "error"

\* direction of the autoscaling event
Direction(optimal, current) == IF optimal < current THEN "down" ELSE "up"

\* scaleWorkerDeployment, r.Get fails: return before the probe (nil on not-found)
ScaleGetFails(getOutcome) ==
    /\ getOutcome # "ok"
    /\ lastTick' = [get |-> getOutcome, probe |-> "none", patch |-> "none", event |-> "none",
                    result |-> IF getOutcome = "notfound" THEN "nil" ELSE "error"]
    /\ prevReplicas' = currentReplicas
    /\ UNCHANGED <<queueDepth, currentReplicas, targetReplicas, steadyTicks, workerVars,
                   auxVars>>

\* scaleWorkerDeployment, r.Get succeeds: probe, rule, and the patch when the
\* optimal count differs from the current one
ScaleAfterGet(probeOk, depth, patchOutcome) ==
    LET totalDepth == StatsTotalDepth(getQueueStats(probeOk, depth))
        optimal == calculateOptimalReplicas(totalDepth, currentReplicas)
        probe == IF probeOk THEN "ok" ELSE "failed"
    IN /\ queueDepth' = totalDepth
       /\ prevReplicas' = currentReplicas
       /\ targetReplicas' = optimal
       /\ IF optimal # currentReplicas
          THEN /\ currentReplicas' = IF patchOutcome = "ok" THEN optimal ELSE currentReplicas
               /\ lastTick' = [get |-> "ok", probe |-> probe, patch |-> patchOutcome,
                               event |-> IF PatchError(patchOutcome) THEN "none"
                                         ELSE Direction(optimal, currentReplicas),
                               result |-> IF PatchError(patchOutcome) THEN "error" ELSE "nil"]
          ELSE /\ currentReplicas' = currentReplicas
               /\ lastTick' = [get |-> "ok", probe |-> probe, patch |-> "none",
                               event |-> "none", result |-> "nil"]
       /\ UNCHANGED <<steadyTicks, workerVars, auxVars>>

\* one call of scaleWorkerDeployment by the ticker of StartPeriodicScaling
scaleWorkerDeployment ==
    \/ \E getOutcome \in GetOutcomes : ScaleGetFails(getOutcome)
    \/ \E depth \in 0..MaxDepth, patchOutcome \in PatchOutcomes :
           ScaleAfterGet(TRUE, depth, patchOutcome)
    \/ \E patchOutcome \in PatchOutcomes : ScaleAfterGet(FALSE, 0, patchOutcome)

NextScaler == scaleWorkerDeployment

SpecScaler == InitRule /\ [][NextScaler]_vars

\* ---------------------------- the tick step by step, with a second client
\* the fields of the worker deployment the model tells apart
DeploymentFields == {"replicas", "podTemplate"}

\* contents of everything but spec.replicas
PodTemplates == {0, 1}

\* the worker deployment as the API server holds it
Deployment == [replicas |-> currentReplicas, podTemplate |-> podTemplate]

\* variant of MergeFrom: the patch carries the whole modified object
MergeFromNothing(original, modified) == [f \in DeploymentFields |-> modified[f]]

\* client.MergeFrom(original) and the data Patch computes from it: a JSON merge
\* patch with the fields in which the modified object differs from the original
MergeFrom(original, modified) ==
    [f \in {g \in DeploymentFields : original[g] # modified[g]} |-> modified[f]]

\* the API server applies a merge patch: fields it names are replaced, all
\* others keep the server's value
ApplyMergePatch(object, patch) ==
    [f \in DeploymentFields |-> IF f \in DOMAIN patch THEN patch[f] ELSE object[f]]

\* scaleWorkerDeployment up to the comparison: r.Get succeeds, probe, rule
TickAnalyse(probeOk, depth) ==
    LET totalDepth == StatsTotalDepth(getQueueStats(probeOk, depth))
        optimal == calculateOptimalReplicas(totalDepth, currentReplicas)
    IN /\ scalePc = "tick"
       /\ queueDepth' = totalDepth
       /\ prevReplicas' = currentReplicas
       /\ targetReplicas' = optimal
       /\ lastTick' = [get |-> "ok", probe |-> IF probeOk THEN "ok" ELSE "failed",
                       patch |-> "none", event |-> "none", result |-> "nil"]
       /\ scalePc' = IF optimal # currentReplicas THEN "update" ELSE "tick"
       /\ UNCHANGED <<currentReplicas, steadyTicks, workerVars, now, heartbeatKeys, startedAt,
                      nForeign, feed, series, podTemplate, fresh>>

\* scaleWorkerDeployment when r.Get fails, between two ticks
TickGetFails(getOutcome) ==
    /\ scalePc = "tick"
    /\ ScaleGetFails(getOutcome)

\* updateDeploymentReplicas: r.Get of the fresh object; an error ends the tick
UpdateGetFresh(ok) ==
    /\ scalePc = "update"
    /\ IF ok
       THEN /\ fresh' = Deployment
            /\ scalePc' = "patch"
            /\ lastTick' = lastTick
       ELSE /\ fresh' = fresh
            /\ scalePc' = "tick"
            /\ lastTick' = [lastTick EXCEPT !.patch = "error", !.result = "error"]
    /\ UNCHANGED <<queueDepth, currentReplicas, prevReplicas, targetReplicas, steadyTicks,
                   workerVars, now, heartbeatKeys, startedAt, nForeign, feed, series,
                   podTemplate>>

\* updateDeploymentReplicas: DeepCopy, set Spec.Replicas, r.Patch with
\* MergeFrom(original); then the event of scaleWorkerDeployment
UpdatePatch(patchOutcome) ==
    LET modified == [fresh EXCEPT !.replicas = targetReplicas]
        patched == ApplyMergePatch(Deployment, MergeFrom(fresh, modified))
    IN /\ scalePc = "patch"
       /\ currentReplicas' = IF patchOutcome = "ok" THEN patched.replicas ELSE currentReplicas
       /\ podTemplate' = IF patchOutcome = "ok" THEN patched.podTemplate ELSE podTemplate
       /\ lastTick' = [lastTick EXCEPT
                         !.patch = patchOutcome,
                         !.event = IF PatchError(patchOutcome) THEN "none"
                                   ELSE Direction(targetReplicas, prevReplicas),
                         !.result = IF PatchError(patchOutcome) THEN "error" ELSE "nil"]
       /\ scalePc' = "tick"
       /\ UNCHANGED <<queueDepth, prevReplicas, targetReplicas, steadyTicks, workerVars, now,
                      heartbeatKeys, startedAt, nForeign, feed, series, fresh>>

\* another client of the API server edits the deployment outside spec.replicas
EditPodTemplate(template) ==
    /\ template # podTemplate
    /\ podTemplate' = template
    /\ UNCHANGED <<workerVars, scalerVars, now, heartbeatKeys, startedAt, nForeign, feed, series,
                   fresh, scalePc>>

NextPatch ==
    \/ \E getOutcome \in GetOutcomes : TickGetFails(getOutcome)
    \/ \E depth \in 0..MaxDepth : TickAnalyse(TRUE, depth)
    \/ TickAnalyse(FALSE, 0)
    \/ \E ok \in BOOLEAN : UpdateGetFresh(ok)
    \/ \E patchOutcome \in PatchOutcomes : UpdatePatch(patchOutcome)
    \/ \E template \in PodTemplates : EditPodTemplate(template)

SpecPatch == InitRule /\ [][NextPatch]_vars

\* ------------------------------------------------------------- properties
TypeOK ==
    /\ \A w \in Workers : jobSema[w] \in 0..(ConcurrentJobs + 1)
    /\ \A w \in Workers : JobsActive[w] \in 0..MaxPublish
    /\ nPublished \in 0..MaxPublish

\* drivers of worker w that have not yet given their permit back
RunningDrivers(w) == CountDrivers(w, DriverStages \ {"released"})

\* position of a status on the path Pending -> Running -> {Succeeded, Failed}
StatusRank(row) ==
    IF ~row.exists THEN 0
    ELSE IF row.status = JobStatusPending THEN 1
    ELSE IF row.status = JobStatusRunning THEN 2
    ELSE 3

TerminalStatus(row) == row.exists /\ row.status \in {JobStatusSucceeded, JobStatusFailed}

\* in this step a mark-running of job id j returned nil to its driver
MarkRunningSucceeds(j) ==
    \E w \in Workers, message \in SubmitJobMessage :
        /\ message.job_id = j
        /\ HasDriver(w, "start", message)
        /\ drivers' = MoveDriver(w, "start", "process", message)

\* C1: at every instant the number of per-job drivers of one worker that are
\* running is at most concurrent-jobs.
C1_InFlightBound == \A w \in Workers : RunningDrivers(w) <= ConcurrentJobs

\* C1 witness: a worker runs concurrent-jobs drivers while its dispatch loop
\* holds one more claimed message and waits for a permit.
C1_Witness ==
    \E w \in Workers :
        /\ RunningDrivers(w) = ConcurrentJobs
        /\ loopPc[w] = "acquire"
        /\ loopMsg[w] # NoMessage

\* C2: no mutation moves a job row back to an earlier status or out of a
\* terminal status: the statuses of a row form a prefix of Pending, Running,
\* then one of Succeeded or Failed.
C2_StatusMonotone ==
    [][\A j \in JobIds :
          /\ StatusRank(rows'[j]) >= StatusRank(rows[j])
          /\ TerminalStatus(rows[j]) => rows'[j].status = rows[j].status]_vars

\* C3: once the worker-id of a job row is set it is never changed, so no two
\* workers are ever attributed to the same job id.
C3_WorkerIdNeverChanges ==
    [][\A j \in JobIds :
          rows[j].worker_id # NoWorker => rows'[j].worker_id = rows[j].worker_id]_vars

\* C4: mark-running is the unique transition into Running: of several
\* mark-running calls for one job id only the one that finds the row Pending
\* succeeds, every other one sees zero rows affected.
C4_MarkRunningUnique ==
    [][\A j \in JobIds :
          MarkRunningSucceeds(j) => rows[j].status = JobStatusPending]_vars

\* C5: the in-flight gauge is incremented after the permit is acquired and
\* decremented before it is released, so the gauge never exceeds
\* concurrent-jobs.
C5_GaugeBound == \A w \in Workers : JobsActive[w] <= ConcurrentJobs

\* ------------------------------------------------------- autoscaler claims
\* at least one tick has been applied
Ticked == steadyTicks > 0

\* the knob is at a fixed point of the rule for the current depth
AtFixedPoint == calculateOptimalReplicas(queueDepth, currentReplicas) = currentReplicas

RECURSIVE CeilLog2(_)
CeilLog2(n) == IF n <= 1 THEN 0 ELSE 1 + CeilLog2((n + 1) \div 2)

\* C6: between two consecutive ticks the replica count increases by at most
\* STEP_UP and decreases by at most STEP_DOWN, for every depth sample and
\* every starting replica count in [MIN, MAX].
C6_StepBounds ==
    Ticked => /\ targetReplicas - prevReplicas <= ScaleUpStep
              /\ prevReplicas - targetReplicas <= ScaleDownStep

C8_Converges == <>[]AtFixedPoint

\* C8 witness: after ticks that moved the knob, a further tick at the same
\* depth left it where it was.
C8_Witness ==
    /\ steadyTicks = 4
    /\ queueDepth > ScaleUpThreshold
    /\ prevReplicas = NeededReplicas(queueDepth)
    /\ currentReplicas = prevReplicas
    /\ currentReplicas = 7

\* C9 as stated: at constant depth the replica count is at its fixed point
\* after ceil(log2(MAX)) ticks.
C9_ConvergesInLogTicksOriginal ==
    steadyTicks >= CeilLog2(DefaultMaxReplicas) => AtFixedPoint

\* C9 amended: at constant depth and from any starting replica count in
\* [MIN, MAX] the replica count is at its fixed point after MAX - MIN ticks.
C9_ConvergesInRangeTicks ==
    steadyTicks >= DefaultMaxReplicas - DefaultMinReplicas => AtFixedPoint

\* C9 witness: the ninth tick at a low depth brought the knob from 2 to MIN.
C9_Witness ==
    /\ steadyTicks = DefaultMaxReplicas - DefaultMinReplicas
    /\ queueDepth > 0
    /\ queueDepth < ScaleDownThreshold
    /\ prevReplicas = DefaultMinReplicas + 1
    /\ currentReplicas = DefaultMinReplicas

\* C10: for DOWN <= depth <= UP and a current replica count in [MIN, MAX] the
\* target equals the current count.
C10_Hysteresis ==
    (Ticked /\ queueDepth >= ScaleDownThreshold /\ queueDepth <= ScaleUpThreshold)
        => targetReplicas = prevReplicas

\* C10 witness: a tick at the lower edge of the band kept 7 replicas.
C10_Witness ==
    /\ Ticked
    /\ queueDepth = ScaleDownThreshold
    /\ prevReplicas = 7
    /\ targetReplicas = 7

\* ------------------------------------------------------------- ramp claim
\* the targets of the ticks fed so far
Targets == Tail(series)

\* the ramp scenario: the knob started at 1 and the plateau is at depth 50
RampScenario == Head(series) = 1 /\ feed = RampFeed(50)

\* the targets so far are a prefix of the expected series
TargetsFollow(expected) ==
    \A k \in 1..Len(Targets) : k <= Len(expected) /\ Targets[k] = expected[k]

\* C31 as stated: from current = 1 the samples [0, 0, 50, 50, 50, 50, 0, 0]
\* give the target series [1, 1, 3, 5, 7, 9, 10, 1, 1].
C31_RampSeriesAsStated ==
    RampScenario => TargetsFollow(<<1, 1, 3, 5, 7, 9, 10, 1, 1>>)

\* C31 amended: from current = 1 the samples [0, 0, 50, 50, 50, 50, 0, 0]
\* give the target series [1, 1, 3, 5, 5, 5, 1, 1]: +STEP_UP per tick until
\* ceil(50/10) = 5, 5 while the depth stays at 50, then MIN at depth 0.
C31_RampSeries ==
    RampScenario => TargetsFollow(<<1, 1, 3, 5, 5, 5, 1, 1>>)

\* C31 witness: all eight samples of the ramp scenario were fed.
C31_Witness ==
    /\ RampScenario
    /\ Len(Targets) = Len(feed)
    /\ Targets[4] = 5
    /\ Targets[6] = 5
    /\ currentReplicas = DefaultMinReplicas

\* ------------------------------------------------- reconciliation tick claims
\* C32: a tick writes to the orchestrator only if target != current, and the
\* write is a merge patch that changes only the replica field of the worker
\* deployment: every other field keeps the value the server has, also when
\* another client edited it after the controller read the object.
C32_PatchTouchesOnlyReplicas ==
    [][/\ scalePc' # scalePc => podTemplate' = podTemplate
       /\ currentReplicas' # currentReplicas =>
             /\ scalePc = "patch"
             /\ targetReplicas # prevReplicas
             /\ currentReplicas' = targetReplicas]_vars

\* C33: a conflict error from the replica patch is swallowed: the tick returns
\* nil and leaves the knob where it was, the ticker can fire again, and the
\* next tick whose read and patch go through brings the knob to the value the
\* rule prescribes for its sample.
C33_ConflictSwallowed ==
    [][/\ lastTick'.patch = "conflict" =>
             /\ lastTick'.result = "nil"
             /\ currentReplicas' = currentReplicas
             /\ ENABLED scaleWorkerDeployment
       /\ (lastTick.patch = "conflict" /\ lastTick'.get = "ok"
              /\ lastTick'.patch \in {"ok", "none"}) =>
             /\ currentReplicas' = calculateOptimalReplicas(queueDepth', currentReplicas)
             /\ lastTick'.result = "nil"]_vars

\* C33 witness: the patch of the last tick met a conflict; the tick returned
\* nil and the knob still differs from the target.
C33_Witness ==
    /\ lastTick.patch = "conflict"
    /\ lastTick.result = "nil"
    /\ targetReplicas # prevReplicas
    /\ currentReplicas = prevReplicas

\* C32 witness: the patch moved the knob to the target while the server holds
\* a pod template that differs from the one the controller had read.
C32_Witness ==
    /\ scalePc = "tick"
    /\ lastTick.patch = "ok"
    /\ fresh.replicas = prevReplicas
    /\ fresh.podTemplate # podTemplate
    /\ targetReplicas # prevReplicas
    /\ currentReplicas = targetReplicas

\* C11: a tick whose queue-pressure probe fails is a no-op: the replica knob
\* is not patched and keeps the value it had before the tick.
C11_ProbeFailureNoOp ==
    lastTick.probe = "failed" =>
        /\ lastTick.patch = "none"
        /\ currentReplicas = prevReplicas

\* ------------------------------------------------ shutdown and driver claims
\* in this step one driver of w for the message arrives at the stage
EntersStage(w, stage, message) ==
    CopiesIn(Driver(w, stage, message), drivers')
        > CopiesIn(Driver(w, stage, message), drivers)

\* in this step one driver of w for the message leaves the stage
LeavesStage(w, stage, message) ==
    CopiesIn(Driver(w, stage, message), drivers')
        < CopiesIn(Driver(w, stage, message), drivers)

\* the workers and messages of the drivers that exist before or after this step
DriverWorkers == {d.worker : d \in BagToSet(drivers) \cup BagToSet(drivers')}
DriverMessages == {d.msg : d \in BagToSet(drivers) \cup BagToSet(drivers')}

\* in this step ConsumeJob of w returns a message
Claims(w) == loopPc[w] = "consume" /\ loopPc'[w] = "acquire"

\* stages a driver is in only after its mark-running returned nil
PostMarkStages == {"process", "record", "seterr", "recerr"}

\* in this step processJob returns in a driver whose mark-running had succeeded
FinishesMarked(w, message) ==
    /\ EntersStage(w, "return", message)
    /\ \E stage \in PostMarkStages : LeavesStage(w, stage, message)

\* C12: the worker reports stopped (Start returns, done channel closed) only
\* after every acquired permit is released, when no driver is running any more.
C12_StoppedAfterPermitsReleased ==
    \A w \in Workers :
        doneCh[w] = "closed" => (jobSema[w] = 0 /\ RunningDrivers(w) = 0)

\* C13: after shutdown is signalled (Stop or cancellation of the context) the
\* dispatch loop of that worker removes no further message from the queues.
C13_NoClaimAfterShutdown ==
    [][\A w \in Workers : ShutdownSignalled(w) => ~Claims(w)]_vars

\* C14: when a driver whose mark-running succeeded finishes, the job row is
\* Succeeded or Failed and is never left in Running.
C14_DriverEndsTerminal ==
    [][\A w \in DriverWorkers, message \in DriverMessages :
          FinishesMarked(w, message) => TerminalStatus(rows'[message.job_id])]_vars

\* the envelope a driver of the message deposits after a failed mark-running
ShuntEnvelope(message) == FailedEnvelope(message, "update job status")

\* C15 as stated: a driver whose mark-running failed deposits one failed
\* envelope for its message and does not touch the row.
C15_ShuntDepositsOne ==
    [][\A w \in DriverWorkers, message \in DriverMessages :
          LeavesStage(w, "shunt", message) =>
              /\ queues'[QueueFailed] = LPush(queues[QueueFailed], ShuntEnvelope(message))
              /\ rows' = rows]_vars

\* C15 amended: a driver whose mark-running failed makes one attempt to deposit
\* a failed envelope for its message (one envelope, or none when the push
\* fails), then returns, and never mutates the row.
C15_ShuntBestEffort ==
    [][drivers' # drivers => \A w \in DriverWorkers, message \in DriverMessages :
          /\ (LeavesStage(w, "start", message) /\ ~EntersStage(w, "process", message))
                => (EntersStage(w, "shunt", message) /\ rows' = rows)
          /\ LeavesStage(w, "shunt", message)
                => /\ EntersStage(w, "return", message)
                   /\ rows' = rows
                   /\ \/ queues' = queues
                      \/ queues' = [queues EXCEPT ![QueueFailed] =
                                       <<ShuntEnvelope(message)>> \o queues[QueueFailed]]
          /\ (LeavesStage(w, "return", message) \/ LeavesStage(w, "released", message))
                => rows' = rows]_vars

\* C15 witness: the only message published names a job without a row; its
\* driver failed mark-running with not-found, deposited the envelope and
\* returned.
C15_Witness ==
    \E w \in Workers, message \in SubmitJobMessage :
        /\ nPublished = 1
        /\ HasDriver(w, "return", message)
        /\ ~rows[message.job_id].exists
        /\ queues[QueueFailed] = <<ShuntEnvelope(message)>>

\* C16: once mark-running succeeded, the driver never deposits on the failed
\* queue: only a driver coming straight from a failed mark-running shunts, and
\* a failed transform goes to set-error, which writes Failed and the error
\* text on the row.
C16_NoShuntAfterMarkRunning ==
    [][/\ queues'[QueueFailed] # queues[QueueFailed]
            => \E w \in DriverWorkers, message \in DriverMessages :
                   LeavesStage(w, "shunt", message)
       /\ drivers' # drivers => \A w \in DriverWorkers, message \in DriverMessages :
            /\ EntersStage(w, "shunt", message)
                  => (LeavesStage(w, "start", message) /\ rows' = rows)
            /\ LeavesStage(w, "process", message)
                  => (EntersStage(w, "record", message) \/ EntersStage(w, "seterr", message))
            /\ LeavesStage(w, "seterr", message)
                  => /\ EntersStage(w, "return", message)
                     /\ queues' = queues
                     /\ \/ rows' = rows
                        \/ /\ rows'[message.job_id].status = JobStatusFailed
                           /\ rows'[message.job_id].error_message = "error"]_vars

\* C16 witness: the only message published was marked running, its transform
\* failed, the row is Failed with the error text and the failed queue is empty.
C16_Witness ==
    \E w \in Workers, message \in SubmitJobMessage :
        /\ nPublished = 1
        /\ HasDriver(w, "return", message)
        /\ rows[message.job_id].status = JobStatusFailed
        /\ rows[message.job_id].error_message = "error"
        /\ queues[QueueFailed] = <<>>

\* C17: a failed set-result is followed by one set-error call with the failure
\* text (best effort) and the return of the driver; set-result is entered only
\* from the transform (no retry) and nothing goes to the failed queue.
C17_RecordFailureSetsError ==
    [][drivers' # drivers => \A w \in DriverWorkers, message \in DriverMessages :
          /\ LeavesStage(w, "record", message)
                => \/ /\ EntersStage(w, "return", message)
                      /\ rows'[message.job_id].status = JobStatusSucceeded
                   \/ /\ EntersStage(w, "recerr", message)
                      /\ rows' = rows
                      /\ queues' = queues
          /\ EntersStage(w, "record", message) => LeavesStage(w, "process", message)
          /\ LeavesStage(w, "recerr", message)
                => /\ EntersStage(w, "return", message)
                   /\ queues' = queues
                   /\ \/ rows' = rows
                      \/ /\ rows'[message.job_id].status = JobStatusFailed
                         /\ rows'[message.job_id].error_message = "update job result"]_vars

\* C17 witness: set-result failed for the only message published, set-error
\* then wrote the failure text, and the failed queue is empty.
C17_Witness ==
    \E w \in Workers, message \in SubmitJobMessage :
        /\ nPublished = 1
        /\ HasDriver(w, "return", message)
        /\ rows[message.job_id].status = JobStatusFailed
        /\ rows[message.job_id].error_message = "update job result"
        /\ queues[QueueFailed] = <<>>

\* C18: in every reachable state of a job row, started-at is set iff the row
\* has been Running, completed-at iff the status is Succeeded or Failed,
\* result path iff Succeeded, error message iff Failed.
C18_RowFieldsMatchStatus ==
    \A j \in JobIds :
        rows[j].exists =>
            /\ rows[j].started_at <=> StatusRank(rows[j]) >= 2
            /\ rows[j].completed_at <=> TerminalStatus(rows[j])
            /\ rows[j].result_path # "" <=> rows[j].status = JobStatusSucceeded
            /\ rows[j].error_message # "" <=> rows[j].status = JobStatusFailed

\* --------------------------------------------------------- queue claims
\* C19: when the priority queue and the main queue are both non-empty, a
\* claim returns the oldest message of the priority queue and leaves the main
\* queue alone.
C19_PriorityDrainsFirst ==
    [][\A w \in Workers :
          (Claims(w) /\ Len(queues[QueuePriority]) > 0 /\ Len(queues[QueueMain]) > 0)
              => /\ loopMsg'[w] = Head(publishOrder[QueuePriority])
                 /\ queues'[QueueMain] = queues[QueueMain]
                 /\ Len(queues'[QueuePriority]) = Len(queues[QueuePriority]) - 1]_vars

\* C19 witness: the loop holds a priority message that it popped while both
\* queues held messages; the main queue still holds its message.
C19_Witness ==
    \E w \in Workers :
        /\ loopPc[w] = "acquire"
        /\ brpopSaw[w].priority > 0
        /\ brpopSaw[w].main > 0
        /\ PublishQueueName(loopMsg[w]) = QueuePriority
        /\ Len(queues[QueueMain]) = brpopSaw[w].main

\* C20: the successive claims of a single claimer return the messages of one
\* queue in the order in which they were published, whatever the interleaving
\* of publishes and claims.
C20_FifoWithinQueue ==
    [][\A w \in Workers :
          Claims(w) =>
              \E q \in ClaimableQueues :
                  /\ Len(queues'[q]) = Len(queues[q]) - 1
                  /\ loopMsg'[w] = Head(publishOrder[q])
                  /\ publishOrder'[q] = Tail(publishOrder[q])]_vars

\* C20 witness: two different messages waited in the main queue; the loop
\* holds the one published first and the later one is still queued.
C20_Witness ==
    \E w \in Workers :
        /\ loopPc[w] = "acquire"
        /\ brpopSaw[w].main >= 2
        /\ PublishQueueName(loopMsg[w]) = QueueMain
        /\ Len(publishOrder[QueueMain]) >= 1
        /\ Head(publishOrder[QueueMain]) # loopMsg[w]

\* ------------------------------------------------ queue residence claims
\* number of entries of the list equal to data
CountIn(list, data) == Cardinality({i \in 1..Len(list) : list[i] = data})

\* number of failed envelopes in the list built around the message
EnvelopesOf(list, message) ==
    Cardinality({i \in 1..Len(list) : /\ list[i].job_id = message.job_id
                                      /\ list[i].priority = message.priority})

\* copies of the message over the three queues qs
InQueues(qs, message) ==
    CountIn(qs[QueueMain], message) + CountIn(qs[QueuePriority], message)
        + EnvelopesOf(qs[QueueFailed], message)

\* number of goroutines in the bag ds that hold the message at one of the stages
HeldByDrivers(ds, stages, message) ==
    LET S == {d \in BagToSet(ds) : d.msg = message /\ d.stage \in stages}
        RECURSIVE Sum(_)
        Sum(T) == IF T = {} THEN 0
                  ELSE LET d == CHOOSE x \in T : TRUE
                       IN CopiesIn(d, ds) + Sum(T \ {d})
    IN Sum(S)

\* copies of the message that are in a queue or in the hands of code that can
\* still deposit it: a dispatch loop, or a driver before the end of its shunt
Places(qs, held, ds, message) ==
    InQueues(qs, message)
        + Cardinality({w \in Workers : held[w] = message})
        + HeldByDrivers(ds, {"start", "shunt"}, message)

C22_FailedNeverReconsumed ==
    [][/\ \/ queues'[QueueFailed] = queues[QueueFailed]
          \/ /\ Len(queues'[QueueFailed]) = Len(queues[QueueFailed]) + 1
             /\ Tail(queues'[QueueFailed]) = queues[QueueFailed]
       /\ \A w \in Workers :
            Claims(w) => /\ queues'[QueueFailed] = queues[QueueFailed]
                         /\ loopMsg'[w] \in SubmitJobMessage
                         /\ \E q \in ClaimableQueues :
                                /\ Len(queues[q]) > 0
                                /\ loopMsg'[w] = RPopValue(queues[q])
                                /\ queues'[q] = RPopRest(queues[q])
       /\ \A q \in ClaimableQueues :
            Len(queues'[q]) > Len(queues[q]) => nPublished' = nPublished + 1]_vars

\* C22 witness: the envelope of a shunted message lies in the failed queue, its
\* driver is gone, the claimable queues hold one other message, and the
\* dispatch loop is in ConsumeJob: its BRPOP takes that other message.
C22_Witness ==
    \E w \in Workers, message \in SubmitJobMessage :
        /\ loopPc[w] = "consume"
        /\ drivers = EmptyBag
        /\ queues[QueueFailed] = <<ShuntEnvelope(message)>>
        /\ Len(queues[QueuePriority]) + Len(queues[QueueMain]) = 1
        /\ InQueues(queues, message) = 1

\* the entry is the JSON of a message, as PublishJob writes it
WellFormed(jobData) == jobData \in SubmitJobMessage

\* in this step ConsumeJob of w returns ErrNoJobsAvailable or an error
ClaimReturnsNothing(w) == loopPc[w] = "consume" /\ loopPc'[w] = "select"

\* C23 as stated: an entry leaves a claimable queue only in a claim that
\* returns it to the caller; a claim that returns no-jobs or fail removes
\* nothing.
C23_FailingClaimRemovesNothing ==
    [][/\ \A q \in ClaimableQueues :
            Len(queues'[q]) < Len(queues[q]) => \E w \in Workers : Claims(w)
       /\ \A w \in Workers : ClaimReturnsNothing(w) => queues' = queues]_vars

\* C23 amended: an entry leaves a claimable queue only by the pop of a claim,
\* one entry at a time from the tail. A well-formed message leaves only in a
\* claim that returns it to the caller; a claim that returns no-jobs or a
\* substrate error removes nothing; a claim that fails on decode has removed
\* the malformed entry it failed on, and nothing else.
C23_OnlyDecodeFailureLosesEntry ==
    [][/\ \A q \in ClaimableQueues :
            Len(queues'[q]) < Len(queues[q])
                => /\ queues'[q] = RPopRest(queues[q])
                   /\ \E w \in Workers : loopPc[w] = "consume" /\ loopPc'[w] # "consume"
                   /\ WellFormed(RPopValue(queues[q]))
                        => \E w \in Workers :
                               Claims(w) /\ loopMsg'[w] = RPopValue(queues[q])
       /\ \A w \in Workers :
            ClaimReturnsNothing(w)
                => \/ queues' = queues
                   \/ \E q \in ClaimableQueues :
                          /\ q = BRPopSource(queues)
                          /\ ~WellFormed(RPopValue(queues[q]))
                          /\ queues' = [queues EXCEPT ![q] = RPopRest(queues[q])]]_vars

\* C23 witness: the only entry ever pushed was malformed; a claim popped it,
\* failed on decode and returned to the outer select with nothing in hand.
C23_Witness ==
    \E w \in Workers :
        /\ nForeign = 1
        /\ nPublished = 1
        /\ loopPc[w] = "select"
        /\ loopMsg[w] = NoMessage
        /\ \A q \in QueueNames : queues[q] = <<>>
        /\ drivers = EmptyBag

\* ------------------------------------------------ permit and loop claims
\* permits the dispatch loop of w has acquired for a goroutine it has not
\* spawned yet
PermitsInHand(w) == IF loopPc[w] = "acquired" THEN 1 ELSE 0

\* C27: every permit acquired for a driver is released exactly once when the
\* driver completes, on each of its exit paths: the permits held in the
\* semaphore are exactly those of the drivers that have not released yet (and
\* of the driver the loop is starting), so the semaphore is empty whenever no
\* driver is running.
C27_PermitsMatchDrivers ==
    \A w \in Workers : jobSema[w] = RunningDrivers(w) + PermitsInHand(w)

\* C27 witness: two drivers have come and gone, one through a failed
\* mark-running (its envelope is in the failed queue), one through a failed
\* set-result (its row carries that error); the semaphore is empty again.
C27_Witness ==
    \E w \in Workers, j \in JobIds :
        /\ drivers = EmptyBag
        /\ loopPc[w] = "select"
        /\ jobSema[w] = 0
        /\ nPublished = 2
        /\ Len(queues[QueueFailed]) = 1
        /\ queues[QueueFailed][1].job_id # j
        /\ rows[j].status = JobStatusFailed
        /\ rows[j].error_message = "update job result"

\* C28: when shutdown is signalled while the dispatch loop is blocked on a
\* full semaphore, the wait can end at once and ends only by the return of the
\* loop; whenever the loop returns from the permit wait the claimed message is
\* abandoned: no driver is started for it, no row is changed and no queue
\* receives it.
C28_ShutdownAbandonsClaimed ==
    [][\A w \in Workers :
          /\ (loopPc[w] = "acquire" /\ Alive(w) /\ ShutdownSignalled(w))
                => ENABLED LoopAbandon(w)
          /\ (loopPc[w] = "acquire" /\ jobSema[w] >= ConcurrentJobs
                /\ loopPc'[w] # "acquire")
                => loopPc'[w] = "exited"
          /\ (loopPc[w] = "acquire" /\ loopPc'[w] = "exited")
                => /\ ShutdownSignalled(w)
                   /\ drivers' = drivers
                   /\ rows' = rows
                   /\ queues' = queues
                   /\ jobSema' = jobSema]_vars

\* C28 witness: the loop returned while it held a claimed message and the
\* semaphore was full (the driver of another job still holds the permit); the
\* message is in no queue, no driver has it and its row is still the Pending
\* row the publisher created.
C28_Witness ==
    \E w \in Workers :
        /\ loopPc[w] = "exited"
        /\ loopMsg[w] \in SubmitJobMessage
        /\ jobSema[w] = ConcurrentJobs
        /\ RunningDrivers(w) = ConcurrentJobs
        /\ InQueues(queues, loopMsg[w]) = 0
        /\ HeldByDrivers(drivers, DriverStages, loopMsg[w]) = 0
        /\ \A d \in BagToSet(drivers) : d.msg.job_id # loopMsg[w].job_id
        /\ rows[loopMsg[w].job_id] = PendingRow

\* a step of the dispatch loop of w while no shutdown is signalled
LoopStep(w) ==
    \/ LoopDefault(w)
    \/ LoopConsume(w)
    \/ LoopAcquire(w)
    \/ LoopStartDriver(w)

\* C29: the dispatch loop never waits for a job to complete: whatever the
\* drivers are doing, its next step can be taken unless it is in the permit
\* wait and no permit is free. It waits only in the claim itself (a bounded
\* BRPOP, one step) and in the permit acquisition.
C29_LoopNeverWaitsForJobs ==
    \A w \in Workers :
        (/\ Alive(w)
         /\ loopPc[w] # "exited"
         /\ ~ShutdownSignalled(w)
         /\ (loopPc[w] = "acquire" => jobSema[w] < ConcurrentJobs))
            => ENABLED LoopStep(w)

\* C29 witness: the driver started for one message has not taken its first
\* step yet, and the loop has meanwhile gone round and claimed the next
\* message.
C29_Witness ==
    \E w \in Workers, message \in SubmitJobMessage :
        /\ HasDriver(w, "start", message)
        /\ loopPc[w] = "acquire"
        /\ loopMsg[w] \in SubmitJobMessage
        /\ loopMsg[w] # message

\* ------------------------------------------------ priority scenario claim
\* the message is in no claimable queue any more
Claimed(message) ==
    CountIn(queues[QueueMain], message) + CountIn(queues[QueuePriority], message) = 0

\* the message was claimed and the driver started for it has given its permit
\* back: the loop does not hold it and no goroutine of it is before "released"
DriverOver(message) ==
    /\ Claimed(message)
    /\ \A w \in Workers : loopMsg[w] # message
    /\ HeldByDrivers(drivers, DriverStages \ {"released"}, message) = 0

DelaySeconds == {0, 5}

\* C26: for a message with delay-ms > 0 the driver sleeps that long after
\* mark-running and before the transform reads the input file: the file is
\* read (textProcessor.Process) no earlier than delay-ms after started_at.
C26_DelayBeforeFileRead ==
    [][\A w \in DriverWorkers, message \in DriverMessages :
          LeavesStage(w, "process", message)
              => \A d \in DelaySeconds :
                     d > 0 => now - startedAt[message.job_id] >= d]_vars

\* ------------------------------------------------------ heartbeat claims
\* C24: a started worker posts a heartbeat at once and then every
\* heartbeat-interval: at every time before shutdown begins its heartbeat
\* record exists and was written within the last interval plus one tick of
\* drift.
C24_HeartbeatFresh ==
    \A w \in SoloWorkers :
        (now > 0 /\ ~ShutdownSignalled(w))
            => /\ heartbeatKeys[w] # NoHeartbeat
               /\ now - heartbeatKeys[w].last_seen
                    <= heartbeatKeys[w].interval + TickSeconds

\* C25: every heartbeat write gives the record a TTL of 2 * interval + 10
\* seconds, so a worker that has not posted for more than 2 * interval + 10
\* seconds is no longer listed by fleet().
C25_SilentWorkerDropsOut ==
    \A w \in Workers :
        heartbeatKeys[w] # NoHeartbeat
            => /\ heartbeatKeys[w].expires
                    = heartbeatKeys[w].last_seen + 2 * heartbeatKeys[w].interval + 10
               /\ now - heartbeatKeys[w].last_seen > 2 * heartbeatKeys[w].interval + 10
                    => w \notin GetActiveWorkers(Workers)

\* C25 witness: one worker posted with interval 5 and has been silent for 25
\* seconds, 5 more than its TTL of 20: fleet() lists another worker that
\* posted later, but no longer this one.
C25_Witness ==
    \E a \in Workers, b \in Workers :
        /\ a # b
        /\ heartbeatKeys[a].interval = 5
        /\ now - heartbeatKeys[a].last_seen = 25
        /\ a \notin GetActiveWorkers(Workers)
        /\ b \in GetActiveWorkers(Workers)

\* ------------------------------------------------------- stop and shutdown claims
\* C34: the shutdown channel of a worker is closed at most once: Stop()
\* combined with the cancellation of the context passed to Start, in either
\* order, never performs a second close (the run-time panic "close of closed
\* channel" never happens).
C34_ShutdownClosedOnce ==
    \A w \in Workers : ~panicked[w]

\* C35: a call to Stop() on a started worker eventually returns once the
\* dispatch loop has exited, also when the context passed to Start is never
\* cancelled.
C35_StopReturns ==
    \A w \in SoloWorkers :
        (stopPc[w] = "waiting" /\ loopPc[w] = "exited")
            ~> (ctxDone[w] \/ ENABLED StopReturn(w))

\* C36: once shutdown has been signalled (shutdown channel closed or context
\* cancelled) the permit select never takes the permit case, so no new driver
\* is started for a message that is already claimed, even if a permit is free.
C36_NoDriverAfterShutdown ==
    [][\A w \in Workers :
          (ShutdownSignalled(w) /\ loopPc[w] = "acquire") => loopPc'[w] # "acquired"]_vars

\* claimed messages the dispatch loop of w holds and has not handed to a driver
WaitingClaimed(w) == IF loopPc[w] \in {"acquire", "acquired"} THEN 1 ELSE 0

\* claimed messages of w outside the queues: being driven or waiting
HeldOutside(w) == RunningDrivers(w) + WaitingClaimed(w)

\* C37 as stated: at every instant a worker holds at most concurrent-jobs
\* claimed messages outside the queues, counting the messages being driven and
\* the message that is claimed and waits for a permit.
C37_HeldAtMostConcurrentJobs ==
    \A w \in Workers : HeldOutside(w) <= ConcurrentJobs

\* C37 amended: a worker holds at most concurrent-jobs + 1 claimed messages
\* outside the queues: at most concurrent-jobs are being driven, and the one
\* beyond that is the message the loop claimed before it asked for a permit.
C37_HeldAtMostOneMore ==
    \A w \in Workers :
        /\ HeldOutside(w) <= ConcurrentJobs + 1
        /\ HeldOutside(w) > ConcurrentJobs =>
              (loopPc[w] = "acquire" /\ jobSema[w] = ConcurrentJobs)

\* C37 witness: every permit is taken by a driver that is transforming, and
\* the loop holds one more claimed message.
C37_Witness ==
    \E w \in Workers :
        /\ CountDrivers(w, {"process"}) = ConcurrentJobs
        /\ HeldOutside(w) = ConcurrentJobs + 1
        /\ loopMsg[w] \in SubmitJobMessage

\* C40: no claimed message for which a driver was started vanishes without a
\* trace: when its driver finishes, the job row is in a terminal status or a
\* failed envelope for the message is on text_tasks:failed, also when the
\* context of the worker is cancelled meanwhile.
C40_DriverLeavesTrace ==
    [][\A w \in DriverWorkers, message \in DriverMessages :
          EntersStage(w, "return", message) =>
              \/ TerminalStatus(rows'[message.job_id])
              \/ EnvelopesOf(queues'[QueueFailed], message) > 0]_vars

\* ------------------------------------------------------ scaling event claims
\* C38: in the scale-up branch of the replica rule (depth > UP) the target is
\* never lower than the current replica count, for every current in
\* [MIN, MAX].
C38_ScaleUpNeverLowers ==
    (Ticked /\ queueDepth > ScaleUpThreshold) => targetReplicas >= prevReplicas

\* C39: an autoscaling event is recorded in a tick only if the patch of that
\* tick changed the replica knob; a tick whose patch met a conflict records
\* no event.
C39_EventOnlyOnChange ==
    lastTick.event # "none" =>
        /\ lastTick.patch = "ok"
        /\ currentReplicas # prevReplicas

====
